---- MODULE Spec2Model ----
(***************************************************************************)
(* Indoclimate chat backend: the session store (SessionStorage), the       *)
(* history redaction, the query router (ChatService.routeQuery) and the    *)
(* retrieval context assembler (RAGProcessingService).                     *)
(*                                                                         *)
(* Texts are sequences of one-character strings.  The two context markers  *)
(* ___begin_context___ and ___end_context___ are carried as one symbol     *)
(* each: they hold neither "$" nor white space, so the redaction regex and *)
(* trim() treat every character of them like any other plain character.   *)
(***************************************************************************)
EXTENDS Integers, Sequences, FiniteSets, TLC

VARIABLES
  sessions,           \* SessionStorage.sessions: Map<string, Session>
  userSessions,       \* SessionStorage.userSessions: Map<string, UserSessionData>
  clientConnections,  \* SessionStorage.clientConnections: Map<fingerprint, ...>
  now,                \* the wall clock read by new Date()
  appended,           \* history: per id, the messages pushed since the list was last emptied
  lastCall,           \* history: the last store operation, its arguments and its return value
  pool,               \* the texts that callers pass to addMessage in this run
  budget,             \* store operations left in this run
  merge,              \* one call of RAGProcessingService.mergeChunks: its arguments and result
  rag,                \* one call of RAGProcessingService.processRAGQuery: its locals
  route,              \* one call of ChatService.routeQuery: the model's reply and the result
  gateway             \* the requests in flight on /api/webhook and /api/chat, and what was sent

storeVars == <<sessions, userSessions, clientConnections, now, appended, lastCall, pool, budget>>
vars == <<storeVars, merge, rag, route, gateway>>

----------------------------------------------------------------------------
(* Bounds of the exploration. *)

MaxOps == 3
MaxTime == 2
WindowOps == 6
RedactOps == 2
MaxTextLen == 4
MaxChunkLen == 3
MaxHits == 3
TurnOps == 4

----------------------------------------------------------------------------
(* Text helpers (String.prototype.trim, slice, toLowerCase). *)

BeginMarker == "___begin_context___"
EndMarker == "___end_context___"

IsSpace(c) == c \in {" ", "\n", "\t"}

Min(a, b) == IF a <= b THEN a ELSE b
Max(a, b) == IF a >= b THEN a ELSE b

\* s.slice(0, n) for 0 <= n
Take(s, n) == SubSeq(s, 1, Min(n, Len(s)))

\* s.slice(-n) for n >= 1
LastN(s, n) == SubSeq(s, Len(s) - Min(n, Len(s)) + 1, Len(s))

\* s.slice(0, -n) for n >= 1
DropLast(s, n) == SubSeq(s, 1, Len(s) - Min(n, Len(s)))

RECURSIVE TrimStart(_)
TrimStart(s) == IF s # <<>> /\ IsSpace(Head(s)) THEN TrimStart(Tail(s)) ELSE s

RECURSIVE TrimEnd(_)
TrimEnd(s) == IF s # <<>> /\ IsSpace(s[Len(s)]) THEN TrimEnd(SubSeq(s, 1, Len(s) - 1)) ELSE s

Trim(s) == TrimEnd(TrimStart(s))

Contains(s, c) == \E i \in 1..Len(s) : s[i] = c

\* every text of length <= n over the characters cs
TextsUpTo(cs, n) == UNION {[1..k -> cs] : k \in 0..n}

----------------------------------------------------------------------------
(* SessionStorage: pure helpers. *)

maxMessages == 4

NoUser == ""
NoText == <<>>

HumanMessage(content) == [role |-> "user", content |-> content]
AIMessage(content) == [role |-> "assistant", content |-> content]

\* the match of /\$([^$]+)\$/ : the leftmost "$" that is followed by one or
\* more characters other than "$" and then a "$"
MatchStarts(content) ==
  {i \in 1..Len(content) :
     /\ content[i] = "$"
     /\ i + 1 <= Len(content)
     /\ content[i + 1] # "$"
     /\ \E j \in (i + 2)..Len(content) : content[j] = "$"}

MatchStart(content) == CHOOSE i \in MatchStarts(content) : \A k \in MatchStarts(content) : i <= k

MatchEnd(content) ==
  LET i == MatchStart(content)
  IN CHOOSE j \in (i + 2)..Len(content) :
       /\ content[j] = "$"
       /\ \A k \in (i + 1)..(j - 1) : content[k] # "$"

extractQueryFromMessage(content) ==
  IF MatchStarts(content) # {}
  THEN Trim(SubSeq(content, MatchStart(content) + 1, MatchEnd(content) - 1))
  ELSE content

trimHistoryKeepsHead(messages) ==
  IF Len(messages) > maxMessages THEN Take(messages, maxMessages) ELSE messages

trimHistory(messages) ==
  IF Len(messages) > maxMessages THEN LastN(messages, maxMessages) ELSE messages

\* createSimpleHash: hash = (hash << 5) - hash + code, kept to 32 bits by
\* "hash & hash", then Math.abs.  A 32-bit word is a pair <<high, low>> of
\* 16-bit halves; toString(36) is one-to-one on the result and is not modelled.
HashStep(h, code) ==
  LET lo == h[2] * 31 + code
      hi == h[1] * 31 + (lo \div 65536)
  IN <<hi % 65536, lo % 65536>>

RECURSIVE HashFold(_, _)
HashFold(h, str) == IF str = <<>> THEN h ELSE HashFold(HashStep(h, Head(str)), Tail(str))

AbsInt32(h) ==
  IF h[1] < 32768 THEN h
  ELSE <<65536 - h[1] - (IF h[2] = 0 THEN 0 ELSE 1), (65536 - h[2]) % 65536>>

createSimpleHash(str) == AbsInt32(HashFold(<<0, 0>>, str))

\* the character codes of 'unknown'
Unknown == <<117, 110, 107, 110, 111, 119, 110>>

OrUnknown(str) == IF str # NoText THEN str ELSE Unknown

Fingerprint(ipAddress, userAgent) ==
  <<createSimpleHash(OrUnknown(ipAddress)), createSimpleHash(OrUnknown(userAgent))>>

Includes(seq, x) == \E i \in 1..Len(seq) : seq[i] = x

Put(map, key, value) == [k \in DOMAIN map \cup {key} |-> IF k = key THEN value ELSE map[k]]
Remove(map, key) == [k \in DOMAIN map \ {key} |-> map[k]]
EmptyMap == [k \in {} |-> 0]

----------------------------------------------------------------------------
(* SessionStorage: the operations, as functions of the maps they change. *)

MetaFields == {"userId", "createdAt", "lastActive", "userAgent", "ipAddress", "sessionType", "metadata"}

\* associateSessionWithUser
associateSessionWithUser(us, sessionId, userId) ==
  LET base == IF userId \in DOMAIN us THEN us[userId]
              ELSE [userId |-> userId, sessionIds |-> <<>>, createdAt |-> now, lastActive |-> now]
      ids == IF Includes(base.sessionIds, sessionId) THEN base.sessionIds
             ELSE Append(base.sessionIds, sessionId)
  IN Put(us, userId, [base EXCEPT !.sessionIds = ids, !.lastActive = now])

\* getOrCreateClientConnection followed by associateSessionWithClientConnection
associateSessionWithClientConnection(cc, sessionId, ipAddress, userAgent) ==
  LET fp == Fingerprint(ipAddress, userAgent)
      base == IF fp \in DOMAIN cc THEN cc[fp]
              ELSE [ipHash |-> fp[1], userAgentHash |-> fp[2], fingerprint |-> fp,
                    firstSeen |-> now, lastSeen |-> now, sessionIds |-> <<>>]
      ids == IF Includes(base.sessionIds, sessionId) THEN base.sessionIds
             ELSE Append(base.sessionIds, sessionId)
  IN Put(cc, fp, [base EXCEPT !.lastSeen = now, !.sessionIds = ids])

SavedAsIs(session) == session

\* saveSession: the session as stored, and the user index after it
Saved(session) == [session EXCEPT !.metadata.lastActive = now]

SavedUsers(us, session) ==
  IF session.metadata.userId # NoUser
  THEN associateSessionWithUser(us, session.id, session.metadata.userId)
  ELSE us

NewSession(sessionId, userId, additionalMetadata) ==
  [id |-> sessionId,
   messages |-> <<>>,
   metadata |-> [userId |-> userId, createdAt |-> now, lastActive |-> now,
                 userAgent |-> NoText, ipAddress |-> NoText,
                 sessionType |-> "general", metadata |-> additionalMetadata]]

\* { ...session.metadata, ...partial, lastActive: new Date() }
MergeMetadata(metadata, partial) ==
  [f \in MetaFields |->
     IF f = "lastActive" THEN now
     ELSE IF f \in DOMAIN partial THEN partial[f]
     ELSE metadata[f]]

Given(partial, f) == IF f \in DOMAIN partial THEN partial[f] ELSE NoText

\* the message addMessage pushes: a HumanMessage is rebuilt from the extracted query
CleanedMessage(message) ==
  IF message.role = "user" THEN HumanMessage(extractQueryFromMessage(message.content))
  ELSE message

Call(op, id, message, ret) == [op |-> op, id |-> id, message |-> message, ret |-> ret]
NoMessage == [role |-> "none", content |-> NoText]

----------------------------------------------------------------------------
(* SessionStorage: one action per public operation. *)

SessionIds == {<<"wablass", "_", "628">>, <<"session", "_", "1">>}
WablasPrefix == <<"wablass", "_">>
UserIds == {"u1"}
IpAddresses == {<<49>>}
UserAgents == {<<65>>}
Roles == {"user", "assistant"}

\* what callers pass to updateMetadata (app/api/chat/route.ts)
Partials ==
  {[sessionType |-> "rag"], [sessionType |-> "general"]}
  \cup {[userId |-> u, userAgent |-> ua, ipAddress |-> ip, lastActive |-> 0] :
          u \in UserIds \cup {NoUser}, ua \in UserAgents \cup {NoText}, ip \in IpAddresses}

StartsWith(str, prefix) == Len(prefix) <= Len(str) /\ SubSeq(str, 1, Len(prefix)) = prefix

Spend == budget > 0 /\ budget' = budget - 1

createSession(sessionId, userId, additionalMetadata) ==
  /\ Spend
  /\ sessions' = Put(sessions, sessionId, NewSession(sessionId, userId, additionalMetadata))
  /\ userSessions' = IF userId # NoUser
                     THEN associateSessionWithUser(userSessions, sessionId, userId)
                     ELSE userSessions
  /\ appended' = [appended EXCEPT ![sessionId] = <<>>]
  /\ lastCall' = Call("createSession", sessionId, NoMessage, 0)
  /\ UNCHANGED <<clientConnections, now, pool>>

addMessage(sessionId, message) ==
  LET session == IF sessionId \in DOMAIN sessions THEN sessions[sessionId]
                 ELSE NewSession(sessionId, NoUser, {})
      pushed == Append(session.messages, CleanedMessage(message))
      after == [session EXCEPT !.messages = trimHistory(pushed)]
  IN /\ Spend
     /\ sessions' = Put(sessions, sessionId, Saved(after))
     /\ userSessions' = SavedUsers(userSessions, after)
     /\ appended' = [appended EXCEPT ![sessionId] =
                       IF sessionId \in DOMAIN sessions
                       THEN Append(@, CleanedMessage(message))
                       ELSE <<CleanedMessage(message)>>]
     /\ lastCall' = Call("addMessage", sessionId, message, 0)
     /\ UNCHANGED <<clientConnections, now, pool>>

updateMetadata(sessionId, partial) ==
  /\ Spend
  /\ IF sessionId \in DOMAIN sessions
     THEN LET merged == [sessions[sessionId] EXCEPT
                           !.metadata = MergeMetadata(sessions[sessionId].metadata, partial)]
          IN /\ sessions' = Put(sessions, sessionId, Saved(merged))
             /\ userSessions' = SavedUsers(userSessions, merged)
             /\ clientConnections' =
                  IF Given(partial, "ipAddress") # NoText \/ Given(partial, "userAgent") # NoText
                  THEN associateSessionWithClientConnection(
                         clientConnections, sessionId,
                         IF Given(partial, "ipAddress") # NoText THEN partial.ipAddress
                         ELSE OrUnknown(merged.metadata.ipAddress),
                         IF Given(partial, "userAgent") # NoText THEN partial.userAgent
                         ELSE merged.metadata.userAgent)
                  ELSE clientConnections
     ELSE UNCHANGED <<sessions, userSessions, clientConnections>>
  /\ lastCall' = Call("updateMetadata", sessionId, NoMessage, 0)
  /\ UNCHANGED <<now, appended, pool>>

clearSessionMessagesAndType(sessionId) ==
  /\ Spend
  /\ IF sessionId \in DOMAIN sessions
     THEN LET cleared == [sessions[sessionId] EXCEPT !.messages = <<>>,
                                                      !.metadata.sessionType = "general"]
          IN /\ sessions' = Put(sessions, sessionId, Saved(cleared))
             /\ userSessions' = SavedUsers(userSessions, cleared)
             /\ appended' = [appended EXCEPT ![sessionId] = <<>>]
     ELSE UNCHANGED <<sessions, userSessions, appended>>
  /\ lastCall' = Call("clearSessionMessages", sessionId, NoMessage, 0)
  /\ UNCHANGED <<clientConnections, now, pool>>

clearSessionMessages(sessionId) ==
  /\ Spend
  /\ IF sessionId \in DOMAIN sessions
     THEN LET cleared == [sessions[sessionId] EXCEPT !.messages = <<>>]
          IN /\ sessions' = Put(sessions, sessionId, Saved(cleared))
             /\ userSessions' = SavedUsers(userSessions, cleared)
             /\ appended' = [appended EXCEPT ![sessionId] = <<>>]
     ELSE UNCHANGED <<sessions, userSessions, appended>>
  /\ lastCall' = Call("clearSessionMessages", sessionId, NoMessage, 0)
  /\ UNCHANGED <<clientConnections, now, pool>>

\* the sessions a sweep clears, each saved in turn
RECURSIVE SweepUsers(_, _)
SweepUsers(us, ids) ==
  IF ids = {} THEN us
  ELSE LET id == CHOOSE x \in ids : TRUE
       IN SweepUsers(SavedUsers(us, sessions[id]), ids \ {id})

SweepKeepsNewest(op, arg, hit) ==
  /\ Spend
  /\ sessions' = [id \in DOMAIN sessions |->
                    IF id \in hit THEN Saved([sessions[id] EXCEPT !.messages = LastN(@, 1)])
                    ELSE sessions[id]]
  /\ userSessions' = SweepUsers(userSessions, hit)
  /\ appended' = [id \in DOMAIN appended |-> IF id \in hit THEN <<>> ELSE appended[id]]
  /\ lastCall' = Call(op, arg, NoMessage, Cardinality(hit))
  /\ UNCHANGED <<clientConnections, now, pool>>

Sweep(op, arg, hit) ==
  /\ Spend
  /\ sessions' = [id \in DOMAIN sessions |->
                    IF id \in hit THEN Saved([sessions[id] EXCEPT !.messages = <<>>])
                    ELSE sessions[id]]
  /\ userSessions' = SweepUsers(userSessions, hit)
  /\ appended' = [id \in DOMAIN appended |-> IF id \in hit THEN <<>> ELSE appended[id]]
  /\ lastCall' = Call(op, arg, NoMessage, Cardinality(hit))
  /\ UNCHANGED <<clientConnections, now, pool>>

clearSessionMessagesEverywhere(pattern) ==
  Sweep("clearSessionMessagesByPattern", pattern, DOMAIN sessions)

clearSessionMessagesByPattern(pattern) ==
  Sweep("clearSessionMessagesByPattern", pattern,
        {id \in DOMAIN sessions : StartsWith(id, pattern)})

\* 20000 ms: the clock ticks once per sweep interval of 20 s
InactiveThresholdTicks == 1

clearInactiveSessionsAtThreshold(inactiveThreshold) ==
  Sweep("clearInactiveSessions", <<>>,
        {id \in DOMAIN sessions : now - sessions[id].metadata.lastActive >= inactiveThreshold})

clearInactiveSessions(inactiveThreshold) ==
  Sweep("clearInactiveSessions", <<>>,
        {id \in DOMAIN sessions : now - sessions[id].metadata.lastActive > inactiveThreshold})

clearSession(sessionId) ==
  LET userId == IF sessionId \in DOMAIN sessions THEN sessions[sessionId].metadata.userId
                ELSE NoUser
  IN /\ Spend
     /\ userSessions' =
          IF userId # NoUser /\ userId \in DOMAIN userSessions
          THEN LET left == SelectSeq(userSessions[userId].sessionIds, LAMBDA x : x # sessionId)
               IN IF left = <<>> THEN Remove(userSessions, userId)
                  ELSE Put(userSessions, userId, [userSessions[userId] EXCEPT !.sessionIds = left])
          ELSE userSessions
     /\ sessions' = Remove(sessions, sessionId)
     /\ appended' = [appended EXCEPT ![sessionId] = <<>>]
     /\ lastCall' = Call("clearSession", sessionId, NoMessage, 0)
     /\ UNCHANGED <<clientConnections, now, pool>>

clearAll ==
  /\ Spend
  /\ sessions' = EmptyMap
  /\ userSessions' = EmptyMap
  /\ appended' = [id \in DOMAIN appended |-> <<>>]
  /\ lastCall' = Call("clearAll", <<>>, NoMessage, 0)
  /\ UNCHANGED <<clientConnections, now, pool>>

Tick ==
  /\ now < MaxTime
  /\ now' = now + 1
  /\ UNCHANGED <<sessions, userSessions, clientConnections, appended, lastCall, pool, budget>>

----------------------------------------------------------------------------
(* The store under arbitrary calls. *)

\* the texts of a long run: a plain question, a question inside a context
\* block, and an answer
StoreTexts ==
  {<<"h", "i">>,
   <<BeginMarker, "x", EndMarker, "$", "q", "$">>}

StoreInit ==
  /\ sessions = EmptyMap
  /\ userSessions = EmptyMap
  /\ clientConnections = EmptyMap
  /\ now = 0
  /\ appended = [id \in SessionIds |-> <<>>]
  /\ lastCall = Call("none", <<>>, NoMessage, 0)

\* no call of the assembler or the router is in progress
Idle == [pc |-> "idle"]

NoCalls == merge = Idle /\ rag = Idle /\ route = Idle /\ gateway = Idle

Init ==
  /\ StoreInit
  /\ NoCalls
  /\ pool = StoreTexts
  /\ budget = MaxOps

StoreOnly == UNCHANGED <<merge, rag, route, gateway>>

DoCreateSession ==
  /\ \E id \in SessionIds, u \in UserIds \cup {NoUser} : createSession(id, u, {})
  /\ StoreOnly
DoAddMessage ==
  /\ \E id \in SessionIds, r \in Roles, t \in pool : addMessage(id, [role |-> r, content |-> t])
  /\ StoreOnly
DoUpdateMetadata ==
  /\ \E id \in SessionIds, p \in Partials : updateMetadata(id, p)
  /\ StoreOnly
DoClearSessionMessages ==
  /\ \E id \in SessionIds : clearSessionMessages(id)
  /\ StoreOnly
DoClearByPattern == clearSessionMessagesByPattern(WablasPrefix) /\ StoreOnly
DoClearInactive == clearInactiveSessions(InactiveThresholdTicks) /\ StoreOnly
DoClearSession ==
  /\ \E id \in SessionIds : clearSession(id)
  /\ StoreOnly
DoClearAll == clearAll /\ StoreOnly
DoTick == Tick /\ StoreOnly

Next ==
  \/ DoCreateSession
  \/ DoAddMessage
  \/ DoUpdateMetadata
  \/ DoClearSessionMessages
  \/ DoClearByPattern
  \/ DoClearInactive
  \/ DoClearSession
  \/ DoClearAll
  \/ DoTick

Spec == Init /\ [][Next]_vars

----------------------------------------------------------------------------
(* The sliding window: long runs of appends, clears, metadata updates and   *)
(* sweeps.                                                                  *)

WindowTexts == {<<BeginMarker, "x", EndMarker, "$", "q", "$">>}

InitWindow ==
  /\ StoreInit
  /\ NoCalls
  /\ pool = WindowTexts
  /\ budget = WindowOps

WindowUpdateMetadata ==
  /\ \E id \in SessionIds : updateMetadata(id, [sessionType |-> "rag"])
  /\ StoreOnly

NextWindow ==
  \/ DoAddMessage
  \/ WindowUpdateMetadata
  \/ DoClearSessionMessages
  \/ DoClearByPattern
  \/ DoClearInactive
  \/ DoTick

SpecWindow == InitWindow /\ [][NextWindow]_vars

----------------------------------------------------------------------------
(* Redaction: single appends of every short text and of assembled context   *)
(* blocks.                                                                  *)

RedactChars == {"q", " ", "$", BeginMarker, EndMarker}

\* ___begin_context___ <fragments> ___end_context___ ... $<question>$
ContextBlock(fragments, question) ==
  <<BeginMarker>> \o fragments \o <<EndMarker, "\n", "$">> \o question \o <<"$">>

ContextBlocks ==
  {ContextBlock(f, q) : f \in TextsUpTo({"x", "$"}, 2), q \in {<<"q">>, <<"q", " ", "q">>}}

RedactTexts == TextsUpTo(RedactChars, MaxTextLen) \cup ContextBlocks

InitRedact ==
  /\ StoreInit
  /\ NoCalls
  /\ pool \in {{t} : t \in RedactTexts}
  /\ budget = RedactOps

NextRedact == DoAddMessage

SpecRedact == InitRedact /\ [][NextRedact]_vars

----------------------------------------------------------------------------
(* Claims about the session store. *)

Messages(id) == sessions[id].messages

\* C1: every stored message list has at most maxMessages (4) entries, and it
\* is exactly the last min(n, 4) of the n messages appended since the list
\* was last emptied, in append order.
C1_SlidingWindow ==
  \A id \in DOMAIN sessions :
    /\ Len(Messages(id)) <= maxMessages
    /\ Messages(id) = LastN(appended[id], Min(Len(appended[id]), maxMessages))

\* a session that has evicted: more than 4 appends since the last clear
C1_Witness ==
  \E id \in DOMAIN sessions :
    /\ Len(appended[id]) > maxMessages
    /\ Len(Messages(id)) = maxMessages
    /\ appended[id][1] # appended[id][Len(appended[id])]

\* C2: no stored user message contains the begin or the end context marker.
C2_NoMarkerInUserMessage ==
  \A id \in DOMAIN sessions :
    \A i \in 1..Len(Messages(id)) :
      Messages(id)[i].role = "user" =>
        /\ ~Contains(Messages(id)[i].content, BeginMarker)
        /\ ~Contains(Messages(id)[i].content, EndMarker)

\* the text between the first "$" and the next "$"
Dollars(t) == {i \in 1..Len(t) : t[i] = "$"}
HasWrapper(t) == Cardinality(Dollars(t)) >= 2
FirstDollar(t) == CHOOSE i \in Dollars(t) : \A k \in Dollars(t) : i <= k
SecondDollar(t) == CHOOSE j \in Dollars(t) \ {FirstDollar(t)} :
                     \A k \in Dollars(t) \ {FirstDollar(t)} : j <= k
Wrapped(t) == SubSeq(t, FirstDollar(t) + 1, SecondDollar(t) - 1)

\* an assembled retrieval prompt opens with the begin marker; anything else
\* is a message as the user typed it
IsTyped(t) == t = <<>> \/ t[1] # BeginMarker

\* C3: a user message is stored as the text between its first "$" pair when
\* it has one and verbatim when it has none; a message the user typed is
\* stored unchanged.
C3_StoredUserContent ==
  (lastCall.op = "addMessage" /\ lastCall.message.role = "user") =>
    LET t == lastCall.message.content
        stored == Messages(lastCall.id)[Len(Messages(lastCall.id))].content
    IN /\ ~IsTyped(t) /\ HasWrapper(t) => stored = Wrapped(t)
       /\ ~HasWrapper(t) => stored = t
       /\ IsTyped(t) => stored = t

----------------------------------------------------------------------------
(* RAGProcessingService: overlap detection and merging of two chunks. *)

\* String.prototype.toLowerCase, on the letters the explored texts use
LowerChar(c) ==
  CASE c = "A" -> "a"
    [] c = "B" -> "b"
    [] OTHER -> c

toLowerCase(s) == [i \in 1..Len(s) |-> LowerChar(s[i])]

\* the lengths at which the end of t1 equals the start of t2, case-insensitively
OverlapLengths(t1, t2) ==
  {len \in 1..Min(Len(t1), Len(t2)) : toLowerCase(LastN(t1, len)) = toLowerCase(Take(t2, len))}

findOverlapShortest(text1, text2) ==
  LET lens == OverlapLengths(Trim(text1), Trim(text2))
  IN IF lens = {} THEN 0 ELSE CHOOSE len \in lens : \A k \in lens : len <= k

\* the loop runs from the longest length down and returns at the first hit
findOverlap(text1, text2) ==
  LET lens == OverlapLengths(Trim(text1), Trim(text2))
  IN IF lens = {} THEN 0 ELSE CHOOSE len \in lens : \A k \in lens : k <= len

mergeChunksOffByOne(chunk1, chunk2) ==
  LET overlapLength == findOverlap(chunk1, chunk2)
  IN IF overlapLength > 0
     THEN DropLast(Trim(chunk1), overlapLength + 1) \o chunk2
     ELSE Trim(chunk1) \o <<" ">> \o chunk2

mergeChunks(chunk1, chunk2) ==
  LET overlapLength == findOverlap(chunk1, chunk2)
  IN IF overlapLength > 0
     THEN DropLast(Trim(chunk1), overlapLength) \o chunk2
     ELSE Trim(chunk1) \o <<" ">> \o chunk2

MergeChars == {"a", "A", "b", " "}

TheQuickBrown == <<"t", "h", "e", " ", "q", "u", "i", "c", "k", " ", "b", "r", "o", "w", "n">>
BrownFoxJumps == <<"b", "r", "o", "w", "n", " ", "f", "o", "x", " ", "j", "u", "m", "p", "s">>
TheQuickBrownFoxJumps == <<"t", "h", "e", " ", "q", "u", "i", "c", "k", " ", "b", "r", "o", "w", "n",
                           " ", "f", "o", "x", " ", "j", "u", "m", "p", "s">>

MergeExamples ==
  {<<TheQuickBrown, BrownFoxJumps>>, <<<<"a", "b", "c">>, <<"x", "y", "z">>>>}

MergeInputs ==
  (TextsUpTo(MergeChars, MaxChunkLen) \X TextsUpTo(MergeChars, MaxChunkLen)) \cup MergeExamples

InitMerge ==
  /\ StoreInit
  /\ pool = {}
  /\ budget = 0
  /\ rag = Idle
  /\ route = Idle
  /\ gateway = Idle
  /\ \E in \in MergeInputs :
       merge = [pc |-> "called", chunk1 |-> in[1], chunk2 |-> in[2], merged |-> <<>>]

DoMergeChunks ==
  /\ merge.pc = "called"
  /\ merge' = [merge EXCEPT !.pc = "returned", !.merged = mergeChunks(merge.chunk1, merge.chunk2)]
  /\ UNCHANGED <<storeVars, rag, route, gateway>>

NextMerge == DoMergeChunks

SpecMerge == InitMerge /\ [][NextMerge]_vars

----------------------------------------------------------------------------
(* Claims about mergeChunks. *)

\* the lengths L at which the last L characters of a equal the first L
\* characters of b when case is ignored
CommonLengths(a, b) ==
  {L \in 1..Min(Len(a), Len(b)) :
     \A i \in 1..L : LowerChar(a[Len(a) - L + i]) = LowerChar(b[i])}

Longest(lens) == CHOOSE L \in lens : \A k \in lens : k <= L

\* C4 as stated: the overlap is sought between A and B as given.
C4_MergeOnRawTexts ==
  merge.pc = "returned" =>
    LET A == merge.chunk1
        B == merge.chunk2
    IN IF CommonLengths(A, B) # {}
       THEN merge.merged = SubSeq(A, 1, Len(A) - Longest(CommonLengths(A, B))) \o B
       ELSE merge.merged = Trim(A) \o <<" ">> \o B

\* C4, amended: with A' = A trimmed and B' = B trimmed, mergeChunks(A, B) is
\* A' without its last L characters followed by B, where L is the longest
\* length in 1..min(len A', len B') at which the end of A' equals the start
\* of B' ignoring case; it is A' + " " + B when there is no such L.  "the
\* quick brown" and "brown fox jumps" give "the quick brown fox jumps", and
\* "abc" and "xyz" give "abc xyz".
C4_MergeOnTrimmedTexts ==
  merge.pc = "returned" =>
    LET A == Trim(merge.chunk1)
        B == merge.chunk2
    IN /\ IF CommonLengths(A, Trim(B)) # {}
          THEN merge.merged = SubSeq(A, 1, Len(A) - Longest(CommonLengths(A, Trim(B)))) \o B
          ELSE merge.merged = A \o <<" ">> \o B
       /\ (merge.chunk1 = TheQuickBrown /\ B = BrownFoxJumps) => merge.merged = TheQuickBrownFoxJumps
       /\ (merge.chunk1 = <<"a", "b", "c">> /\ B = <<"x", "y", "z">>) =>
            merge.merged = <<"a", "b", "c", " ", "x", "y", "z">>

\* a merge with white space at the seam, two overlaps of different length
\* and a difference of case inside the overlap
C4_Witness ==
  /\ merge.pc = "returned"
  /\ merge.chunk1 = <<"a", "A", " ">>
  /\ merge.chunk2 = <<" ", "a", "a">>
  /\ merge.merged = <<" ", "a", "a">>

\* what is kept of chunk1 (its first n characters) and of chunk2 (all of it)
KeepsAllBut(A, B, merged, L) ==
  /\ Len(merged) >= Len(A) - L + Len(B)
  /\ SubSeq(merged, 1, Len(A) - L) = SubSeq(A, 1, Len(A) - L)
  /\ SubSeq(merged, Len(merged) - Len(B) + 1, Len(merged)) = B

\* C5 as stated: nothing of A or B is dropped outside the overlap, and the
\* result is at least as long as the longer of A and B.
C5_NothingDroppedRaw ==
  merge.pc = "returned" =>
    LET A == merge.chunk1
        B == merge.chunk2
    IN /\ \E L \in {0} \cup CommonLengths(A, B) : KeepsAllBut(A, B, merge.merged, L)
       /\ Len(merge.merged) >= Max(Len(A), Len(B))

\* C5, amended: apart from the white space around A, mergeChunks(A, B) drops
\* no character of A or B outside the detected overlap (the result starts
\* with trimmed A less an overlap it shares with trimmed B, and ends with B),
\* and its length is never smaller than max(len(trimmed A), len(B)).
C5_NothingDroppedButOuterSpace ==
  merge.pc = "returned" =>
    LET A == Trim(merge.chunk1)
        B == merge.chunk2
    IN /\ \E L \in {0} \cup CommonLengths(A, Trim(B)) : KeepsAllBut(A, B, merge.merged, L)
       /\ Len(merge.merged) >= Max(Len(A), Len(B))

\* a merge that removed an overlap from a chunk with white space around it
C5_Witness ==
  /\ merge.pc = "returned"
  /\ merge.chunk1 = <<"b", "a", " ">>
  /\ merge.chunk2 = <<"A", "b">>
  /\ merge.merged = <<"b", "A", "b">>
  /\ Len(merge.merged) >= Len(merge.chunk1)

----------------------------------------------------------------------------
(* RAGProcessingService.processRAGQuery: the values it works on. *)

\* null, in an array of documents or of metadata
Null == [null |-> TRUE]
Doc(text) == [text |-> text]

\* null, in an array of distances (distances are tenths, 0 or more)
NullDistance == -1

\* 1 in "1 - distance", in tenths
One == 10

FilterNonNull(array) == SelectSeq(array, LAMBDA x : x # Null)
FilterDistances(array) == SelectSeq(array, LAMBDA d : d # NullDistance)

\* results.documents[0]?.filter(...) || [] and its two siblings
Documents(hits) == FilterNonNull([i \in 1..Len(hits) |-> hits[i].document])
Metadatas(hits) == FilterNonNull([i \in 1..Len(hits) |-> hits[i].metadata])
Distances(hits) == FilterDistances([i \in 1..Len(hits) |-> hits[i].distance])

NoDocumentsUnfiltered(hits) == Len(hits) = 0

\* documents.length === 0
NoDocuments(hits) == Len(Documents(hits)) = 0

\* /^[a-zA-Z\s\?\!\.,;:'"0-9\-]+$/ on the characters the explored questions use
IsEnglishChar(c) == c \in {"w", "h", "y", "a", "p", "q", "?", " ", "\n"}

IsEnglish(text) ==
  LET t == Take(Trim(text), 100)
  IN t # <<>> /\ \A i \in 1..Len(t) : IsEnglishChar(t[i])

NoticeEnglish == "No documents found."
NoticeIndonesian == "Tidak ada dokumen yang ditemukan."
Instruction == "IMPORTANT INSTRUCTION / INSTRUKSI PENTING: ... question/pertanyaan:"

\* the prompt around a rendered context
contextPrompt(context, fixedGrammar) ==
  <<BeginMarker, "\n">> \o context \o <<"\n", EndMarker, "\n", "\n", Instruction, "\n", "$">>
    \o fixedGrammar \o <<"$">>

NoDocumentsResult(fixedGrammar) ==
  [contextPrompt |-> contextPrompt(
     <<IF IsEnglish(fixedGrammar) THEN NoticeEnglish ELSE NoticeIndonesian>>, fixedGrammar),
   rationale |-> "No documents found",
   sources |-> <<>>]

\* the decimal digits of a number below 100
DigitChar(d) == <<"0", "1", "2", "3", "4", "5", "6", "7", "8", "9">>[d + 1]
Digits(n) == IF n < 10 THEN <<DigitChar(n)>> ELSE <<DigitChar(n \div 10), DigitChar(n % 10)>>
IsDigit(c) == c \in {"0", "1", "2", "3", "4", "5", "6", "7", "8", "9"}

formatDocument(chunk, docNum) ==
  <<"[">> \o Digits(docNum) \o
  <<"]", "\n", "Jenis: ", chunk.metadata.jenis, "\n", "Nomor: ", chunk.metadata.nomor, "\n",
    "Tahun: ", chunk.metadata.tahun, "\n", "Tentang: ", chunk.metadata.tentang, "\n", "\n">>
  \o chunk.content \o <<"\n", "\n", "---">>

\* Array.prototype.join("\n") of texts
RECURSIVE JoinLines(_)
JoinLines(texts) ==
  IF texts = <<>> THEN <<>>
  ELSE IF Len(texts) = 1 THEN texts[1]
  ELSE texts[1] \o <<"\n">> \o JoinLines(Tail(texts))

\* (text.match(/\[(\d+)\]/g) || []).length
BracketNumbers(text) ==
  {i \in 1..Len(text) :
     /\ text[i] = "["
     /\ \E j \in (i + 2)..Len(text) :
          /\ text[j] = "]"
          /\ \A k \in (i + 1)..(j - 1) : IsDigit(text[k])}

\* Array.prototype.indexOf, 0-based, -1 when absent
indexOf(array, x) ==
  IF Includes(array, x)
  THEN (CHOOSE i \in 1..Len(array) : array[i] = x /\ \A k \in 1..(i - 1) : array[k] # x) - 1
  ELSE -1

\* distances[i] ? 1 - distances[i] : 0
Similarity(distances, i) ==
  IF i <= Len(distances) /\ distances[i] # 0 THEN One - distances[i] ELSE 0

\* a lookup in the vector store that throws
Fault == [fault |-> TRUE]

\* getById inside getAdjacentChunk: a fault is caught and null is returned
getAdjacentChunk(outcome) == IF outcome = Fault THEN Null ELSE outcome

\* the id getAdjacentChunk asks for
TargetId(documentCode, chunkNumber) == <<documentCode, "_", chunkNumber>>

IsLastChunkOffByOne(metadata) == metadata.current_chunk > metadata.total_chunks - 1

\* expandChunk's early return
IsLastChunk(metadata) == metadata.current_chunk >= metadata.total_chunks - 1

\* outcome: the vector store's answer to getById for the chunk after (code, chunk)
expandChunk(content, metadata, outcome) ==
  IF IsLastChunk(metadata) THEN content
  ELSE IF getAdjacentChunk(outcome) = Null THEN content
  ELSE mergeChunks(content, getAdjacentChunk(outcome).text)

\* the ids the loop of step 2 has asked getById for, with the hit they were for
RECURSIVE AdjacentLookups(_, _, _)
AdjacentLookups(i, documents, metadatas) ==
  IF i > Len(documents) THEN <<>>
  ELSE IF documents[i].text = <<>> \/ i > Len(metadatas) \/ IsLastChunk(metadatas[i])
       THEN AdjacentLookups(i + 1, documents, metadatas)
       ELSE <<[docNum |-> i,
               id |-> TargetId(metadatas[i].document_code, metadatas[i].current_chunk + 1)]>>
            \o AdjacentLookups(i + 1, documents, metadatas)

\* the loop of step 2: hits with no content or no metadata are skipped
RECURSIVE ExpandFrom(_, _, _, _, _)
ExpandFrom(i, documents, metadatas, distances, next) ==
  IF i > Len(documents) THEN <<>>
  ELSE IF documents[i].text = <<>> \/ i > Len(metadatas)
       THEN ExpandFrom(i + 1, documents, metadatas, distances, next)
       ELSE <<[content |-> expandChunk(documents[i].text, metadatas[i], next),
               metadata |-> metadatas[i],
               docNum |-> i,
               similarity |-> Similarity(distances, i)]>>
            \o ExpandFrom(i + 1, documents, metadatas, distances, next)

\* Array.prototype.sort((a, b) => b.similarity - a.similarity): stable, highest first
InsertBySimilarity(sorted, chunk) ==
  LET before == Cardinality({i \in 1..Len(sorted) : sorted[i].similarity >= chunk.similarity})
  IN SubSeq(sorted, 1, before) \o <<chunk>> \o SubSeq(sorted, before + 1, Len(sorted))

RECURSIVE SortBySimilarity(_)
SortBySimilarity(chunks) ==
  IF chunks = <<>> THEN <<>>
  ELSE InsertBySimilarity(SortBySimilarity(SubSeq(chunks, 1, Len(chunks) - 1)), chunks[Len(chunks)])

allFormattedDocs(mergedChunks) ==
  JoinLines([idx \in 1..Len(mergedChunks) |-> formatDocument(mergedChunks[idx], idx)])

----------------------------------------------------------------------------
(* A reply of the language model, and what the two JSON readers make of it. *)

\* a reply's text, in symbols: the two code fences, the text of one JSON
\* value, a word of prose, and white space
FenceJson == "FENCE_JSON"
Fence == "FENCE"
JsonText == "JSON"
Word == "word"

\* String.prototype.replace with the pattern /<fence>\n?/g and ""
RECURSIVE RemoveFence(_, _)
RemoveFence(text, fence) ==
  IF text = <<>> THEN <<>>
  ELSE IF text[1] = fence
       THEN IF Len(text) > 1 /\ text[2] = "\n"
            THEN RemoveFence(SubSeq(text, 3, Len(text)), fence)
            ELSE RemoveFence(Tail(text), fence)
       ELSE <<text[1]>> \o RemoveFence(Tail(text), fence)

jsonString(content) == Trim(RemoveFence(RemoveFence(content, FenceJson), Fence))

\* JSON.parse throws on anything but the text of one value
SyntaxError(content) == jsonString(content) # <<JsonText>>

Bare == <<JsonText>>
Layouts ==
  {Bare,
   <<FenceJson, "\n", JsonText, "\n", Fence>>,
   <<Fence, JsonText, Fence, "\n">>,
   <<Word, " ", JsonText>>,
   <<Word>>}

ParseFails(reply) == reply.kind = "throws" \/ SyntaxError(reply.content)

evaluateChunks(formattedChunks, reply) ==
  IF ParseFails(reply) \/ reply.value.kind = "null"
  THEN [rationale |-> "Error in evaluation, returning all documents.",
        ids |-> [i \in 1..Cardinality(BracketNumbers(formattedChunks)) |-> i]]
  ELSE [rationale |-> reply.value.rationale,
        ids |-> IF reply.value.idsIsArray THEN reply.value.ids ELSE <<>>]

FilterByIds(mergedChunks, ids) == SelectSeq(mergedChunks, LAMBDA chunk : Includes(ids, chunk.docNum))

selectedChunksNoFallback(mergedChunks, ids) == FilterByIds(mergedChunks, ids)

\* step 6: the filter, and the fallback to every chunk
selectedChunks(mergedChunks, ids) ==
  IF FilterByIds(mergedChunks, ids) = <<>> THEN mergedChunks ELSE FilterByIds(mergedChunks, ids)

\* step 7
finalContext(selected, ids) ==
  JoinLines([i \in 1..Len(selected) |->
               formatDocument(selected[i], indexOf(ids, selected[i].docNum) + 1)])

\* step 9
Sources(selected) ==
  [i \in 1..Len(selected) |->
     [jenis |-> selected[i].metadata.jenis, nomor |-> selected[i].metadata.nomor,
      tahun |-> selected[i].metadata.tahun, view_link |-> selected[i].metadata.view_link]]

----------------------------------------------------------------------------
(* processRAGQuery: one call, a step per await. *)

\* chunk 0 of 2 of one document (it has a successor) and chunk 1 of 2 of another
MetaFirst ==
  [document_code |-> "perda_1", current_chunk |-> 0, total_chunks |-> 2, jenis |-> "Perda",
   nomor |-> "1", tahun |-> "2020", tentang |-> "iklim", view_link |-> "link_1"]
MetaLast ==
  [document_code |-> "uu_2", current_chunk |-> 1, total_chunks |-> 2, jenis |-> "UU",
   nomor |-> "2", tahun |-> "2021", tentang |-> "sampah", view_link |-> ""]

Hit(document, metadata, distance) ==
  [document |-> document, metadata |-> metadata, distance |-> distance]

\* the entries a query response can hold at one rank
HitKinds ==
  {Hit(Doc(<<"a", "b">>), MetaFirst, 3),
   Hit(Doc(<<"c", "[", "7", "]">>), MetaLast, 5),
   Hit(Doc(<<"d">>), MetaLast, 0),
   Hit(Doc(<<>>), MetaFirst, 3),
   Hit(Null, MetaFirst, 3),
   Hit(Doc(<<"e">>), Null, NullDistance)}

HitLists == UNION {[1..n -> HitKinds] : n \in 0..MaxHits}

\* what getById does for the successor chunk: returns nothing, throws, or
\* returns its text
NextChunks == {Null, Fault, Doc(<<"B", "x">>)}

Questions == {<<"w", "h", "y", "?">>, <<"a", "p", "a", "%">>, <<"a", "$", "?">>}

Value(kind, rationale, ids, idsIsArray) ==
  [kind |-> kind, rationale |-> rationale, ids |-> ids, idsIsArray |-> idsIsArray]
Reply(kind, content, value) == [kind |-> kind, content |-> content, value |-> value]

NoValue == Value("none", "", <<>>, FALSE)

IdLists == UNION {[1..n -> 0..MaxHits] : n \in 0..2}

\* the evaluator's replies: an invocation error; one object in every layout;
\* bare, the JSON values null and 5, an object whose ids is no array, and an
\* object with every short list of ids
EvaluatorReplies ==
  {Reply("throws", <<>>, NoValue)}
  \cup {Reply("reply", layout, Value("object", "r", <<1>>, TRUE)) : layout \in Layouts}
  \cup {Reply("reply", Bare, Value("null", "", <<>>, FALSE)),
        Reply("reply", Bare, Value("scalar", "", <<>>, FALSE)),
        Reply("reply", Bare, Value("object", "r", <<>>, FALSE))}
  \cup {Reply("reply", Bare, Value("object", "r", ids, TRUE)) : ids \in IdLists}

RagCall(fixedGrammar) ==
  [pc |-> "called", fixedGrammar |-> fixedGrammar, hits |-> <<>>, next |-> Null,
   mergedChunks |-> <<>>, allFormattedDocs |-> <<>>, reply |-> Reply("none", <<>>, NoValue),
   evaluation |-> [rationale |-> "", ids |-> <<>>], selectedChunks |-> <<>>,
   result |-> [contextPrompt |-> <<>>, rationale |-> "", sources |-> <<>>],
   expansions |-> 0, evaluations |-> 0, lookups |-> <<>>, trace |-> <<>>]

InitRag ==
  /\ StoreInit
  /\ pool = {}
  /\ budget = 0
  /\ merge = Idle
  /\ route = Idle
  /\ gateway = Idle
  /\ \E q \in Questions : rag = RagCall(q)

RagOnly == UNCHANGED <<storeVars, merge, route, gateway>>

\* chromaService.query returns; with no document left the call returns at once
DoQuery ==
  /\ rag.pc = "called"
  /\ \E hits \in HitLists, next \in NextChunks :
       rag' = IF NoDocuments(hits)
              THEN [rag EXCEPT !.pc = "returned", !.hits = hits, !.next = next,
                               !.trace = <<"QUERIED">>,
                               !.result = NoDocumentsResult(rag.fixedGrammar)]
              ELSE [rag EXCEPT !.pc = "QUERIED", !.hits = hits, !.next = next,
                               !.trace = <<"QUERIED">>]
  /\ RagOnly

\* chromaService.query throws "Failed to query ChromaDB"
DoQueryFails ==
  /\ rag.pc = "called"
  /\ rag' = [rag EXCEPT !.pc = "threw"]
  /\ RagOnly

\* steps 2 to 4: expand every hit, sort, render the candidates
DoExpand ==
  /\ rag.pc = "QUERIED"
  /\ LET merged == SortBySimilarity(
                     ExpandFrom(1, Documents(rag.hits), Metadatas(rag.hits),
                                Distances(rag.hits), rag.next))
     IN rag' = [rag EXCEPT !.pc = "EXPANDED",
                           !.mergedChunks = merged,
                           !.allFormattedDocs = allFormattedDocs(merged),
                           !.expansions = Len(merged),
                           !.lookups = AdjacentLookups(1, Documents(rag.hits),
                                                       Metadatas(rag.hits)),
                           !.trace = Append(@, "EXPANDED")]
  /\ RagOnly

\* step 5: the evaluator's reply arrives, or its call fails
DoEvaluate ==
  /\ rag.pc = "EXPANDED"
  /\ \E reply \in EvaluatorReplies :
       rag' = [rag EXCEPT !.pc = "EVALUATED",
                          !.reply = reply,
                          !.evaluation = evaluateChunks(rag.allFormattedDocs, reply),
                          !.evaluations = @ + 1,
                          !.trace = Append(@, "EVALUATED")]
  /\ RagOnly

\* step 6
DoSelect ==
  /\ rag.pc = "EVALUATED"
  /\ rag' = [rag EXCEPT !.pc = "SELECTED",
                        !.selectedChunks = selectedChunks(rag.mergedChunks, rag.evaluation.ids),
                        !.trace = Append(@, "SELECTED")]
  /\ RagOnly

\* steps 7 to 9 and the return
DoRender ==
  /\ rag.pc = "SELECTED"
  /\ rag' = [rag EXCEPT !.pc = "returned",
                        !.result = [contextPrompt |->
                                      contextPrompt(finalContext(rag.selectedChunks,
                                                                 rag.evaluation.ids),
                                                    rag.fixedGrammar),
                                    rationale |-> rag.evaluation.rationale,
                                    sources |-> Sources(rag.selectedChunks)],
                        !.trace = Append(@, "RENDERED")]
  /\ RagOnly

NextRag ==
  \/ DoQuery
  \/ DoQueryFails
  \/ DoExpand
  \/ DoEvaluate
  \/ DoSelect
  \/ DoRender

SpecRag == InitRag /\ [][NextRag]_vars

----------------------------------------------------------------------------
(* Claims about processRAGQuery. *)

Stages == <<"QUERIED", "EXPANDED", "EVALUATED", "SELECTED", "RENDERED">>

Rendered == rag.pc = "returned" /\ rag.trace = Stages
Selected == rag.pc = "SELECTED" \/ Rendered

\* what a context prompt holds between its begin and its end marker
ContextBody(prompt) ==
  LET end == CHOOSE i \in 1..Len(prompt) : prompt[i] = EndMarker
  IN SubSeq(prompt, 2, end - 1)

HasInfix(text, infix) ==
  \E i \in 0..(Len(text) - Len(infix)) : SubSeq(text, i + 1, i + Len(infix)) = infix

NoIdMatches ==
  \A k \in 1..Len(rag.evaluation.ids), c \in 1..Len(rag.mergedChunks) :
    rag.evaluation.ids[k] # rag.mergedChunks[c].docNum

EvaluatorFault == ParseFails(rag.reply)

\* C7: when the evaluator's call throws or its reply is no JSON, every merged
\* fragment is selected and kept in the returned context.
C7_FaultSelectsAll ==
  (Selected /\ EvaluatorFault) => rag.selectedChunks = rag.mergedChunks

OneNonNullDocument == \E i \in 1..Len(rag.hits) : rag.hits[i].document # Null

IsPrefix(s, t) == Len(s) <= Len(t) /\ s = SubSeq(t, 1, Len(s))

\* C8: a call whose query returned a non-null document goes through QUERIED,
\* EXPANDED, EVALUATED, SELECTED, RENDERED in that order, its selection is not
\* empty, and neither is the body of the context it renders.
C8_StagesAndNonEmptySelection ==
  (rag.pc # "called" /\ rag.pc # "threw" /\ OneNonNullDocument) =>
    /\ IsPrefix(rag.trace, Stages)
    /\ rag.pc = "returned" => rag.trace = Stages
    /\ Selected => rag.selectedChunks # <<>>
    /\ Rendered => ContextBody(rag.result.contextPrompt) # <<"\n", "\n">>

NoNonNullDocument == \A i \in 1..Len(rag.hits) : rag.hits[i].document = Null

----------------------------------------------------------------------------
(* ChatService.routeQuery: one call. *)

\* JavaScript values, as far as the router's result can hold them
Undefined == [type |-> "undefined", value |-> ""]
Str(value) == [type |-> "string", value |-> value]
Num(value) == [type |-> "number", value |-> value]

AllKeys == {"action", "expanded_query", "rag_optimized_query", "fixed_grammar"}

\* a parsed JSON value: null, a scalar, or an object with some of the four keys
Json(kind, action, expanded_query, rag_optimized_query, fixed_grammar) ==
  [kind |-> kind, action |-> action, expanded_query |-> expanded_query,
   rag_optimized_query |-> rag_optimized_query, fixed_grammar |-> fixed_grammar]

JsonNull == Json("null", Undefined, Undefined, Undefined, Undefined)
JsonScalar == Json("scalar", Undefined, Undefined, Undefined, Undefined)
JsonObjects ==
  {Json("object", a, e, r, f) :
     a \in {Str("rag"), Str("no_rag"), Str("maybe"), Str("RAG"), Num("1"), Undefined},
     e \in {Str("expanded"), Undefined},
     r \in {Str("optimized"), Undefined},
     f \in {Str("fixed"), Undefined}}

\* the router model's replies: every value bare, and two of them in every layout
RouterReplies ==
  {[content |-> Bare, value |-> v] : v \in {JsonNull, JsonScalar} \cup JsonObjects}
  \cup {[content |-> layout, value |-> v] :
          layout \in Layouts,
          v \in {Json("object", Str("rag"), Str("expanded"), Str("optimized"), Str("fixed")),
                 Json("object", Str("maybe"), Undefined, Undefined, Undefined)}}

NoReply == [content |-> <<>>, value |-> Json("none", Undefined, Undefined, Undefined, Undefined)]

\* the catch block's result
RouteFailed ==
  [keys |-> {"action"}, action |-> Str("no_rag"), expanded_query |-> Undefined,
   rag_optimized_query |-> Undefined, fixed_grammar |-> Undefined]

\* the try block after the await: JSON.parse throws on text that is no JSON,
\* reading a property of null throws, a scalar has none of the properties
routeQuery(reply) ==
  IF SyntaxError(Trim(reply.content)) \/ reply.value.kind = "null" THEN RouteFailed
  ELSE [keys |-> AllKeys,
        action |-> reply.value.action,
        expanded_query |-> reply.value.expanded_query,
        rag_optimized_query |-> reply.value.rag_optimized_query,
        fixed_grammar |-> reply.value.fixed_grammar]

RouteCall ==
  [pc |-> "called", reply |-> NoReply, threw |-> FALSE,
   result |-> [keys |-> {}, action |-> Undefined, expanded_query |-> Undefined,
               rag_optimized_query |-> Undefined, fixed_grammar |-> Undefined]]

InitRoute ==
  /\ StoreInit
  /\ pool = {}
  /\ budget = 0
  /\ merge = Idle
  /\ rag = Idle
  /\ gateway = Idle
  /\ route = RouteCall

RouteOnly == UNCHANGED <<storeVars, merge, rag, gateway>>

\* llm.invoke resolves
DoRouteInvoke ==
  /\ route.pc = "called"
  /\ \E reply \in RouterReplies : route' = [route EXCEPT !.pc = "replied", !.reply = reply]
  /\ RouteOnly

\* llm.invoke rejects, and the catch block returns
DoRouteInvokeFails ==
  /\ route.pc = "called"
  /\ route' = [route EXCEPT !.pc = "returned", !.threw = TRUE, !.result = RouteFailed]
  /\ RouteOnly

\* the rest of the try block, or the catch block
DoRouteReturn ==
  /\ route.pc = "replied"
  /\ route' = [route EXCEPT !.pc = "returned", !.result = routeQuery(route.reply)]
  /\ RouteOnly

NextRoute ==
  \/ DoRouteInvoke
  \/ DoRouteInvokeFails
  \/ DoRouteReturn

SpecRoute == InitRoute /\ [][NextRoute]_vars

\* text that is no JSON, fenced or not: it holds prose
NotJson(content) == Contains(content, Word)

\* C10: routeQuery returns {action: "no_rag"} and nothing else when the model's
\* call fails or its reply is no JSON, and whatever the model does the action
\* it returns is "rag" or "no_rag".
C10_RouterFailSafe ==
  route.pc = "returned" =>
    /\ (route.threw \/ NotJson(route.reply.content)) => route.result = RouteFailed
    /\ route.result.action \in {Str("rag"), Str("no_rag")}

----------------------------------------------------------------------------
(* Claims about processRAGQuery: faults, numbering, metadata, redaction. *)

\* C23: a fault of the vector store is absorbed inside processRAGQuery: the
\* call never rejects, and a lookup of the next chunk that finds nothing
\* leaves the hit's own text as the fragment.
C23_StoreFaultsRecovered ==
  /\ rag.pc # "threw"
  /\ (Rendered /\ rag.next = Null) =>
       \A c \in 1..Len(rag.mergedChunks) :
         rag.mergedChunks[c].content = Documents(rag.hits)[rag.mergedChunks[c].docNum].text

\* the selected fragments, rendered under the numbers 1, 2, ... in their order
NumberedInOrder(selected) ==
  JoinLines([i \in 1..Len(selected) |-> formatDocument(selected[i], i)])

\* C25: the returned context holds the selected fragments under the fresh
\* numbers 1..N in selection order, whatever ids the evaluator returned.
C25_FreshSequentialNumbers ==
  Rendered =>
    ContextBody(rag.result.contextPrompt) =
      <<"\n">> \o NumberedInOrder(rag.selectedChunks) \o <<"\n">>

\* the hit a merged fragment was expanded from: docNum counts the non-null
\* documents of the response
HitOf(chunk) == SelectSeq(rag.hits, LAMBDA hit : hit.document # Null)[chunk.docNum]

Expanded == Len(rag.trace) >= 2

\* C26: every merged fragment carries the metadata of the hit whose text it
\* starts with, and the similarity computed from that hit's distance, also
\* when the response holds null documents, metadata or distances.
C26_FragmentKeepsItsHit ==
  Expanded =>
    \A c \in 1..Len(rag.mergedChunks) :
      LET chunk == rag.mergedChunks[c]
          hit == HitOf(chunk)
      IN /\ chunk.metadata = hit.metadata
         /\ chunk.similarity =
              IF hit.distance = NullDistance THEN 0 ELSE Similarity(<<hit.distance>>, 1)

\* C27: the history redaction, applied to the context prompt a call returns
\* (with or without documents), yields exactly the question the call was
\* given.
C27_RedactionYieldsQuestion ==
  rag.pc = "returned" => extractQueryFromMessage(rag.result.contextPrompt) = rag.fixedGrammar

\* C28: the similarity of a fragment is 1 - distance when its hit has a
\* distance, whatever the distance, and 0 only when its hit has none.
C28_SimilarityIsOneMinusDistance ==
  Expanded =>
    \A c \in 1..Len(rag.mergedChunks) :
      LET chunk == rag.mergedChunks[c]
          distance == HitOf(chunk).distance
      IN chunk.similarity = IF distance # NullDistance THEN One - distance ELSE 0

----------------------------------------------------------------------------
(* Claims about the sweeps, the metadata and the indexes of the store. *)

\* a step that is one call of the store operation op
StepOf(op) == budget' = budget - 1 /\ lastCall'.op = op

Wablas628 == <<"wablass", "_", "628">>
Session1 == <<"session", "_", "1">>

IdleFor(id) == now - sessions[id].metadata.lastActive

\* C11: clearInactiveSessions(threshold) empties the messages of exactly the
\* sessions with now - lastActive > threshold, returns how many they are,
\* leaves the messages of every other session as they were, and every cleared
\* session still exists with its creation time and its user id.
C11_InactiveSweep ==
  [][StepOf("clearInactiveSessions") =>
       LET stale == {id \in DOMAIN sessions : IdleFor(id) > InactiveThresholdTicks}
       IN /\ DOMAIN sessions' = DOMAIN sessions
          /\ lastCall'.ret = Cardinality(stale)
          /\ \A id \in stale :
               /\ sessions'[id].messages = <<>>
               /\ sessions'[id].metadata.createdAt = sessions[id].metadata.createdAt
               /\ sessions'[id].metadata.userId = sessions[id].metadata.userId
          /\ \A id \in DOMAIN sessions \ stale :
               sessions'[id].messages = sessions[id].messages]_vars

\* after a sweep that cleared one session and kept another that was idle for
\* exactly the threshold
C11_Witness ==
  /\ lastCall.op = "clearInactiveSessions"
  /\ lastCall.ret = 1
  /\ DOMAIN sessions = SessionIds
  /\ Messages(Wablas628) = <<>>
  /\ sessions[Wablas628].metadata.lastActive = now
  /\ Messages(Session1) # <<>>
  /\ IdleFor(Session1) = InactiveThresholdTicks

\* C12: clearSessionMessagesByPattern(prefix) changes nothing in a session
\* whose id does not start with prefix, however long it has been idle, empties
\* the messages of every session whose id does, and returns their number.
C12_PrefixSweepFrame ==
  [][StepOf("clearSessionMessagesByPattern") =>
       LET hit == {id \in DOMAIN sessions : StartsWith(id, WablasPrefix)}
       IN /\ DOMAIN sessions' = DOMAIN sessions
          /\ lastCall'.ret = Cardinality(hit)
          /\ \A id \in hit : sessions'[id].messages = <<>>
          /\ \A id \in DOMAIN sessions \ hit : sessions'[id] = sessions[id]]_vars

\* after a prefix sweep that left alone a session idle for longer than the
\* inactivity threshold
C12_Witness ==
  /\ lastCall.op = "clearSessionMessagesByPattern"
  /\ lastCall.ret = 1
  /\ DOMAIN sessions = SessionIds
  /\ Messages(Wablas628) = <<>>
  /\ Messages(Session1) # <<>>
  /\ IdleFor(Session1) > InactiveThresholdTicks

LastActive(id) == sessions[id].metadata.lastActive
SessionType(id) == sessions[id].metadata.sessionType

\* C18: while a session exists its lastActive never decreases, whatever
\* lastActive a partial passed to updateMetadata carries, and every addMessage
\* and every updateMetadata of the session sets it to the current time.
C18_LastActiveMonotone ==
  [][/\ \A id \in DOMAIN sessions \cap DOMAIN sessions' :
          sessions'[id].metadata.lastActive >= LastActive(id)
     /\ StepOf("addMessage") => sessions'[lastCall'.id].metadata.lastActive = now'
     /\ (StepOf("updateMetadata") /\ lastCall'.id \in DOMAIN sessions) =>
          sessions'[lastCall'.id].metadata.lastActive = now']_vars

\* after an updateMetadata, later than the creation, whose partial carried
\* lastActive 0 along with the address
C18_Witness ==
  /\ lastCall.op = "updateMetadata"
  /\ lastCall.id = Session1
  /\ Session1 \in DOMAIN sessions
  /\ sessions[Session1].metadata.ipAddress # NoText
  /\ sessions[Session1].metadata.createdAt = 0
  /\ now = MaxTime
  /\ LastActive(Session1) = now

FingerprintsOf(id) ==
  {fp \in DOMAIN clientConnections : Includes(clientConnections[fp].sessionIds, id)}

\* C19: every session id is in the session list of at most one connection
\* fingerprint.
C19_OneFingerprintPerSession ==
  \A id \in SessionIds : Cardinality(FingerprintsOf(id)) <= 1

UsersOf(id) == {u \in DOMAIN userSessions : Includes(userSessions[u].sessionIds, id)}

\* C20: after clearSession(id) the session is not in the session table and no
\* entry of the user index holds id; after clearAll() both are empty.
C20_RemovalDetaches ==
  /\ lastCall.op = "clearSession" => (lastCall.id \notin DOMAIN sessions /\ UsersOf(lastCall.id) = {})
  /\ lastCall.op = "clearAll" => (DOMAIN sessions = {} /\ \A id \in SessionIds : UsersOf(id) = {})

ClearingOps == {"clearSessionMessages", "clearSessionMessagesByPattern", "clearInactiveSessions"}

\* the sessions a clearing step empties
ClearedNow ==
  CASE lastCall'.op = "clearSessionMessages" -> {lastCall'.id} \cap DOMAIN sessions
    [] lastCall'.op = "clearSessionMessagesByPattern" ->
         {id \in DOMAIN sessions : StartsWith(id, lastCall'.id)}
    [] OTHER -> {id \in DOMAIN sessions : IdleFor(id) > InactiveThresholdTicks}

\* C31, as stated: a step of clearSessionMessages, clearSessionMessagesByPattern
\* or clearInactiveSessions leaves every metadata field of every session as it
\* was, lastActive included: it changes message lists only.
C31_ClearingKeepsMetadata ==
  [][(\E op \in ClearingOps : StepOf(op)) =>
       /\ DOMAIN sessions' = DOMAIN sessions
       /\ \A id \in DOMAIN sessions : sessions'[id].metadata = sessions[id].metadata]_vars

\* C31, amended: such a step removes no session, empties the messages of the
\* sessions it clears and sets their lastActive to the current time; every
\* other metadata field of every session is as it was, and a session it does
\* not clear is unchanged.
C31_ClearingKeepsAllButLastActive ==
  [][(\E op \in ClearingOps : StepOf(op)) =>
       /\ DOMAIN sessions' = DOMAIN sessions
       /\ \A id \in DOMAIN sessions, f \in MetaFields \ {"lastActive"} :
            sessions'[id].metadata[f] = sessions[id].metadata[f]
       /\ \A id \in ClearedNow :
            sessions'[id].messages = <<>> /\ sessions'[id].metadata.lastActive = now'
       /\ \A id \in DOMAIN sessions \ ClearedNow : sessions'[id] = sessions[id]]_vars

\* a session of u1, typed rag at its creation time, was cleared later
C31_Witness ==
  /\ lastCall.op = "clearSessionMessages"
  /\ lastCall.id = Session1
  /\ Session1 \in DOMAIN sessions
  /\ SessionType(Session1) = "rag"
  /\ sessions[Session1].metadata.userId = "u1"
  /\ sessions[Session1].metadata.createdAt = 0
  /\ Messages(Session1) = <<>>
  /\ LastActive(Session1) = now
  /\ now > 0

\* a field of a partial that holds undefined
Unsupplied(partial, f) ==
  IF f = "userId" THEN partial[f] = NoUser
  ELSE IF f \in {"userAgent", "ipAddress"} THEN partial[f] = NoText
  ELSE FALSE

\* the merge in which only supplied values win
MergeSupplied(metadata, partial) ==
  [f \in MetaFields |->
     IF f = "lastActive" THEN now
     ELSE IF f \in DOMAIN partial /\ ~Unsupplied(partial, f) THEN partial[f]
     ELSE metadata[f]]

\* C32: updateMetadata of an existing session merges field by field: a field
\* the caller supplies a value for takes it, lastActive becomes the current
\* time, every other field and the message list stay as they were; a field
\* the caller passes as undefined (the userId of a chat request without one)
\* is left as it was.
C32_MergeKeepsUnsupplied ==
  [][(StepOf("updateMetadata") /\ lastCall'.id \in DOMAIN sessions) =>
       /\ sessions'[lastCall'.id].messages = sessions[lastCall'.id].messages
       /\ \E partial \in Partials :
            sessions'[lastCall'.id].metadata =
              MergeSupplied(sessions[lastCall'.id].metadata, partial)]_vars

\* getUserSessions: the indexed ids whose session exists, in index order
getUserSessions(userId) ==
  IF userId \in DOMAIN userSessions
  THEN SelectSeq(userSessions[userId].sessionIds, LAMBDA id : id \in DOMAIN sessions)
  ELSE <<>>

\* C30: the user index is derived from the session table: getUserSessions(u)
\* returns, once each, exactly the existing sessions whose metadata names u.
C30_UserIndexIsDerived ==
  \A u \in UserIds :
    LET found == getUserSessions(u)
    IN /\ {found[i] : i \in 1..Len(found)} =
            {id \in DOMAIN sessions : sessions[id].metadata.userId = u}
       /\ \A i, k \in 1..Len(found) : i # k => found[i] # found[k]

----------------------------------------------------------------------------
(* The request handlers: POST /api/webhook and POST /api/chat, two requests  *)
(* in flight, the webhook's 20 s timer and the two periodic sweeps.  A step  *)
(* is what a handler runs between two awaits.                                *)

\* requests, numbered in their order of arrival
Requests == {1, 2}
Paths == {"webhook", "chat"}

\* createTimeout(20000), in ticks of the clock
TimeoutTicks == 1

SessionOf(path) == IF path = "webhook" THEN Wablas628 ELSE Session1

Question(r) == <<"q", DigitChar(r)>>
Answer(r) == <<"a", DigitChar(r)>>

NewRequest ==
  [pc |-> "new", path |-> "none", arrivedAt |-> 0, routingHistory |-> <<>>, race |-> "none"]

GatewayStart ==
  [req |-> [r \in Requests |-> NewRequest],
   running |-> 0,       \* the request inside a block of synchronous appends, or 0
   saved |-> <<>>,      \* history: every append, with the state of its request's race
   sent |-> <<>>,       \* history: every message handed to sendWablasMessage
   swept |-> FALSE]     \* history: a sweep has emptied a list that held messages

\* two earlier turns of the webhook session, saved by addMessage at time 0
EarlierTurns ==
  <<HumanMessage(<<"q", "0">>), AIMessage(<<"a", "0">>),
    HumanMessage(<<"q", "0">>), AIMessage(<<"a", "0">>)>>

EarlierSession == [NewSession(Wablas628, NoUser, {}) EXCEPT !.messages = EarlierTurns]

\* the store is empty, or the webhook session holds a full window
InitTurns ==
  /\ now = 0
  /\ userSessions = EmptyMap
  /\ clientConnections = EmptyMap
  /\ \/ sessions = EmptyMap /\ appended = [id \in SessionIds |-> <<>>]
     \/ /\ sessions = Put(EmptyMap, Wablas628, EarlierSession)
        /\ appended = [id \in SessionIds |-> IF id = Wablas628 THEN EarlierTurns ELSE <<>>]
  /\ lastCall = Call("none", <<>>, NoMessage, 0)
  /\ pool = {}
  /\ budget = TurnOps
  /\ merge = Idle
  /\ rag = Idle
  /\ route = Idle
  /\ gateway = GatewayStart

TurnsOnly == UNCHANGED <<merge, rag, route>>

Req(r) == gateway.req[r]
Quiet == gateway.running = 0

\* what the chat route passes to updateMetadata on arrival
ArrivalPartial == [userId |-> "u1", userAgent |-> <<65>>, ipAddress |-> <<49>>, lastActive |-> now]

\* the handler up to its first await: the session is created or updated (chat
\* route), the history for the router is read, the timer is started (webhook)
GwArrive(r, path) ==
  /\ Quiet
  /\ Req(r).pc = "new"
  /\ \A q \in Requests : q < r => Req(q).pc # "new"
  /\ IF path = "chat"
     THEN IF Session1 \in DOMAIN sessions
          THEN updateMetadata(Session1, ArrivalPartial)
          ELSE createSession(Session1, "u1", {})
     ELSE UNCHANGED storeVars
  /\ gateway' = [gateway EXCEPT !.req[r] =
       [pc |-> "routing", path |-> path, arrivedAt |-> now,
        routingHistory |-> IF SessionOf(path) \in DOMAIN sessions
                           THEN Messages(SessionOf(path)) ELSE <<>>,
        race |-> IF path = "webhook" THEN "pending" ELSE "none"]]
  /\ TurnsOnly

\* routeQuery resolves; the chat route records the session type
GwRouted(r, action) ==
  /\ Quiet
  /\ Req(r).pc = "routing"
  /\ IF Req(r).path = "chat"
     THEN updateMetadata(Session1, [sessionType |-> IF action = "rag" THEN "rag" ELSE "general"])
     ELSE UNCHANGED storeVars
  /\ gateway' = [gateway EXCEPT
       !.req[r].pc = IF action = "rag" THEN "retrieving" ELSE "answering"]
  /\ TurnsOnly

\* processRAGQuery resolves
GwRetrieved(r) ==
  /\ Quiet
  /\ Req(r).pc = "retrieving"
  /\ gateway' = [gateway EXCEPT !.req[r].pc = "answering"]
  /\ UNCHANGED storeVars
  /\ TurnsOnly

Send(r, kind) == [request |-> r, kind |-> kind]
Save(r, role) == [request |-> r, role |-> role, race |-> Req(r).race]

\* the failure saves the question before it is reported
GwFailsAfterSave(r) ==
  /\ Quiet
  /\ Req(r).pc \in {"retrieving", "answering"}
  /\ addMessage(SessionOf(Req(r).path), HumanMessage(Question(r)))
  /\ gateway' = [gateway EXCEPT
       !.req[r].pc = IF @ = "retrieving" THEN "no context" ELSE "no answer",
       !.req[r].race = IF @ = "pending" THEN "error" ELSE @,
       !.saved = Append(@, Save(r, "user")),
       !.sent = IF Req(r).race = "pending" THEN Append(@, Send(r, "error")) ELSE @]
  /\ TurnsOnly

\* processRAGQuery or the chat model rejects: the stream's catch block closes
\* the stream with an error (chat route), the webhook's catch block sends the
\* error text unless the race is over
GwFails(r) ==
  /\ Quiet
  /\ Req(r).pc \in {"retrieving", "answering"}
  /\ gateway' = [gateway EXCEPT
       !.req[r].pc = IF @ = "retrieving" THEN "no context" ELSE "no answer",
       !.req[r].race = IF @ = "pending" THEN "error" ELSE @,
       !.sent = IF Req(r).race = "pending" THEN Append(@, Send(r, "error")) ELSE @]
  /\ UNCHANGED storeVars
  /\ TurnsOnly

\* the chat model resolves: history.addHumanMessage(message) ...
GwSaveQuestion(r) ==
  /\ Quiet
  /\ Req(r).pc = "answering"
  /\ addMessage(SessionOf(Req(r).path), HumanMessage(Question(r)))
  /\ gateway' = [gateway EXCEPT !.req[r].pc = "saving", !.running = r,
                                !.saved = Append(@, Save(r, "user"))]
  /\ TurnsOnly

GwSaveAnswerSkipped(r) ==
  /\ gateway.running = r
  /\ Req(r).pc = "saving"
  /\ gateway' = [gateway EXCEPT
       !.req[r].pc = IF Req(r).path = "webhook" THEN "sending" ELSE "done",
       !.running = 0]
  /\ UNCHANGED storeVars
  /\ TurnsOnly

\* ... and history.addAIMessage(fullResponse), in the same synchronous block
GwSaveAnswer(r) ==
  /\ gateway.running = r
  /\ Req(r).pc = "saving"
  /\ addMessage(SessionOf(Req(r).path), AIMessage(Answer(r)))
  /\ gateway' = [gateway EXCEPT
       !.req[r].pc = IF Req(r).path = "webhook" THEN "sending" ELSE "done",
       !.running = 0,
       !.saved = Append(@, Save(r, "assistant"))]
  /\ TurnsOnly

\* sendWablasMessage(targetPhone, responseText) resolves: when it returned
\* true the pipeline's promise resolves, when it returned false the text
\* "Maaf, terjadi kesalahan dalam mengirim respons" is handed over next
GwSent(r, ok) ==
  /\ Quiet
  /\ Req(r).pc = "sending"
  /\ gateway' = [gateway EXCEPT
       !.req[r].pc = IF ok THEN "done" ELSE "apologising",
       !.req[r].race = IF @ = "pending" /\ ok THEN "pipeline" ELSE @,
       !.sent = Append(@, Send(r, IF ok THEN "answer" ELSE "not sent"))]
  /\ UNCHANGED storeVars
  /\ TurnsOnly

\* the second sendWablasMessage resolves, its result is not looked at, and
\* the pipeline's promise resolves with status "success"
GwApologised(r) ==
  /\ Quiet
  /\ Req(r).pc = "apologising"
  /\ gateway' = [gateway EXCEPT
       !.req[r].pc = "done",
       !.req[r].race = IF @ = "pending" THEN "pipeline" ELSE @,
       !.sent = Append(@, Send(r, "send apology"))]
  /\ UNCHANGED storeVars
  /\ TurnsOnly

\* the handler waits for the pipeline before it looks at the timer
GwTimeoutAfterPipeline(r) ==
  /\ Quiet
  /\ Req(r).race = "pending"
  /\ Req(r).pc = "done"
  /\ now - Req(r).arrivedAt >= TimeoutTicks
  /\ gateway' = [gateway EXCEPT
       !.req[r].race = "timeout",
       !.sent = Append(@, Send(r, "apology"))]
  /\ UNCHANGED storeVars
  /\ TurnsOnly

\* the timer rejects first: the catch block sends the apology, POST returns 504
GwTimeout(r) ==
  /\ Quiet
  /\ Req(r).race = "pending"
  /\ now - Req(r).arrivedAt >= TimeoutTicks
  /\ gateway' = [gateway EXCEPT
       !.req[r].race = "timeout",
       !.sent = Append(@, Send(r, "apology"))]
  /\ UNCHANGED storeVars
  /\ TurnsOnly

\* cleanupInterval and webCleanupInterval; a sweep that finds no session to
\* clear leaves the store as it is and is not explored
GwSweepWablas ==
  /\ Quiet
  /\ \E id \in DOMAIN sessions : StartsWith(id, WablasPrefix)
  /\ clearSessionMessagesByPattern(WablasPrefix)
  /\ gateway' = [gateway EXCEPT !.swept =
       @ \/ \E id \in DOMAIN sessions : StartsWith(id, WablasPrefix) /\ Messages(id) # <<>>]
  /\ TurnsOnly

GwSweepInactive ==
  /\ Quiet
  /\ \E id \in DOMAIN sessions : IdleFor(id) > InactiveThresholdTicks
  /\ clearInactiveSessions(InactiveThresholdTicks)
  /\ gateway' = [gateway EXCEPT !.swept =
       @ \/ \E id \in DOMAIN sessions : IdleFor(id) > InactiveThresholdTicks /\ Messages(id) # <<>>]
  /\ TurnsOnly

GwTick == Quiet /\ DoTick

DoArrive == \E r \in Requests, path \in Paths : GwArrive(r, path)
DoRouted == \E r \in Requests, action \in {"rag", "no_rag"} : GwRouted(r, action)
DoRetrieved == \E r \in Requests : GwRetrieved(r)
DoFails == \E r \in Requests : GwFails(r)
DoSaveQuestion == \E r \in Requests : GwSaveQuestion(r)
DoSaveAnswer == \E r \in Requests : GwSaveAnswer(r)
DoSent == \E r \in Requests, ok \in BOOLEAN : GwSent(r, ok)
DoApologised == \E r \in Requests : GwApologised(r)
DoTimeout == \E r \in Requests : GwTimeout(r)

NextTurns ==
  \/ DoArrive
  \/ DoRouted
  \/ DoRetrieved
  \/ DoFails
  \/ DoSaveQuestion
  \/ DoSaveAnswer
  \/ DoSent
  \/ DoApologised
  \/ DoTimeout
  \/ GwSweepWablas
  \/ GwSweepInactive
  \/ GwTick

SpecTurns == InitTurns /\ [][NextTurns]_vars

----------------------------------------------------------------------------
(* POST /api/chat/clear beside the other handlers: it removes a session and, *)
(* when the body names a user, creates it again in the same synchronous      *)
(* block.                                                                    *)

\* gateway.running while the clear route is between its two store calls
ClearRunner == 9

GwClearKeepsSession(sessionId, withUser) ==
  /\ Quiet
  /\ clearSessionMessages(sessionId)
  /\ gateway' = [gateway EXCEPT !.running = IF withUser THEN ClearRunner ELSE 0]
  /\ TurnsOnly

\* chatHistoryStore.clearSession(sessionId)
GwClearHistory(sessionId, withUser) ==
  /\ Quiet
  /\ clearSession(sessionId)
  /\ gateway' = [gateway EXCEPT !.running = IF withUser THEN ClearRunner ELSE 0]
  /\ TurnsOnly

\* if (userId) chatHistoryStore.createSession(sessionId, userId)
GwClearCreates(userId) ==
  /\ gateway.running = ClearRunner
  /\ createSession(lastCall.id, userId, {})
  /\ gateway' = [gateway EXCEPT !.running = 0]
  /\ TurnsOnly

DoClearHistory == \E id \in SessionIds, withUser \in BOOLEAN : GwClearHistory(id, withUser)
DoClearCreates == \E u \in UserIds : GwClearCreates(u)

NextCreate ==
  \/ NextTurns
  \/ DoClearHistory
  \/ DoClearCreates

\* store calls explored beside the clear route
CreateOps == 2

\* as InitTurns, with the shorter run
InitCreate ==
  /\ now = 0
  /\ userSessions = EmptyMap
  /\ clientConnections = EmptyMap
  /\ \/ sessions = EmptyMap /\ appended = [id \in SessionIds |-> <<>>]
     \/ /\ sessions = Put(EmptyMap, Wablas628, EarlierSession)
        /\ appended = [id \in SessionIds |-> IF id = Wablas628 THEN EarlierTurns ELSE <<>>]
  /\ lastCall = Call("none", <<>>, NoMessage, 0)
  /\ pool = {}
  /\ budget = CreateOps
  /\ merge = Idle
  /\ rag = Idle
  /\ route = Idle
  /\ gateway = GatewayStart

SpecCreate == InitCreate /\ [][NextCreate]_vars

----------------------------------------------------------------------------
(* The handlers under the scheduling of the runtime: the clock advances, a   *)
(* timer that is due fires, and a synchronous block runs to its end.  The    *)
(* model's calls (router, retrieval, chat model, send) may stay unresolved   *)
(* for ever.  A request arrives while the explored clock has room for its    *)
(* timer, and a block of appends starts while the explored run has room for  *)
(* both appends.                                                             *)

NextLive ==
  \/ DoArrive /\ now + TimeoutTicks <= MaxTime
  \/ DoRouted
  \/ DoRetrieved
  \/ DoFails
  \/ DoSaveQuestion /\ budget >= 2
  \/ DoSaveAnswer
  \/ DoSent
  \/ DoApologised
  \/ DoTimeout
  \/ GwSweepWablas
  \/ GwSweepInactive
  \/ GwTick

LiveFairness ==
  /\ WF_vars(GwTick)
  /\ WF_vars(DoSaveAnswer)
  /\ \A r \in Requests : WF_vars(GwTimeout(r))

SpecLive == InitCreate /\ [][NextLive]_vars /\ LiveFairness

----------------------------------------------------------------------------
(* Claims about the request handlers. *)

\* C13: once the timer has won the race of a webhook turn, no message of that
\* turn is appended to the history.
C13_NoAppendAfterTimeout ==
  \A i \in 1..Len(gateway.saved) : gateway.saved[i].race # "timeout"

SentTo(r, kind) ==
  \E i \in 1..Len(gateway.sent) : gateway.sent[i].request = r /\ gateway.sent[i].kind = kind

\* C14: when the timer has won the race of a webhook turn, the apology is
\* sent and the pipeline's answer of that turn is never sent.
C14_TimeoutDiscardsAnswer ==
  \A r \in Requests :
    Req(r).race = "timeout" => (SentTo(r, "apology") /\ ~SentTo(r, "answer"))

SameSession(q, r) == Req(q).path = Req(r).path

\* C15: of two requests on one session, the messages of the one that arrived
\* first are appended before the messages of the other.
C15_AppendsInArrivalOrder ==
  \A i, j \in 1..Len(gateway.saved) :
    (i < j /\ SameSession(gateway.saved[i].request, gateway.saved[j].request)) =>
      gateway.saved[i].request <= gateway.saved[j].request

\* whole turns: user, assistant, user, assistant, ...
WholeTurns(messages) ==
  /\ Len(messages) % 2 = 0
  /\ \A i \in 1..Len(messages) :
       messages[i].role = IF i % 2 = 1 THEN "user" ELSE "assistant"

\* C16: in every state that a handler or a sweep can observe, every session's
\* history is made of whole turns, and so is every history that was read for
\* the router.
C16_OnlyWholeTurns ==
  Quiet =>
    /\ \A id \in DOMAIN sessions : WholeTurns(Messages(id))
    /\ \A r \in Requests : WholeTurns(Req(r).routingHistory)

\* a turn saved on top of a full window, and seen by the router of the next
\* request
C16_Witness ==
  /\ Quiet
  /\ Wablas628 \in DOMAIN sessions
  /\ Messages(Wablas628) =
       <<HumanMessage(<<"q", "0">>), AIMessage(<<"a", "0">>),
         HumanMessage(Question(1)), AIMessage(Answer(1))>>
  /\ Req(2).pc = "routing"
  /\ Req(2).routingHistory = Messages(Wablas628)

LastSaved == gateway.saved[Len(gateway.saved)].request

\* C17: whatever the interleaving of sweeps and handlers, no history is
\* longer than the window, a turn saved after a sweep is in the history, a
\* prefix sweep leaves every matching session empty, and what a session holds
\* is always the latest of the messages appended since it was last emptied.
C17_AppendsAtomicToSweeps ==
  /\ \A id \in DOMAIN sessions :
       /\ Len(Messages(id)) <= maxMessages
       /\ Messages(id) = LastN(appended[id], Min(Len(appended[id]), maxMessages))
  /\ (Quiet /\ lastCall.op = "addMessage") =>
       LastN(Messages(lastCall.id), 2) =
         <<HumanMessage(Question(LastSaved)), AIMessage(Answer(LastSaved))>>
  /\ lastCall.op = "clearSessionMessagesByPattern" =>
       \A id \in DOMAIN sessions : StartsWith(id, WablasPrefix) => Messages(id) = <<>>

\* a full window was swept, then a turn was saved
C17_Witness ==
  /\ Quiet
  /\ gateway.swept
  /\ lastCall.op = "addMessage"
  /\ lastCall.id = Wablas628
  /\ Wablas628 \in DOMAIN sessions
  /\ Len(gateway.saved) = 2
  /\ Messages(Wablas628) = <<HumanMessage(Question(1)), AIMessage(Answer(1))>>

SavedBy(r) == {i \in 1..Len(gateway.saved) : gateway.saved[i].request = r}

\* C21: when the call of the chat model that generates the answer fails, on
\* the chat route or on the webhook, no message of that turn is appended to
\* the history: neither the question nor any part of an answer.
C21_FailedTurnSavesNothing ==
  \A r \in Requests : Req(r).pc = "no answer" => SavedBy(r) = {}

\* the model failed for a turn of the chat route and for a turn of the
\* webhook, and both histories are as they were
C21_Witness ==
  /\ Req(1).path = "chat" /\ Req(1).pc = "no answer"
  /\ Req(2).path = "webhook" /\ Req(2).pc = "no answer"
  /\ SentTo(2, "error")
  /\ Session1 \in DOMAIN sessions
  /\ Messages(Session1) = <<>>
  /\ Wablas628 \in DOMAIN sessions
  /\ Messages(Wablas628) = EarlierTurns

\* the HTTP status POST /api/webhook answers with, once its race is over
Response(r) ==
  CASE Req(r).race = "pipeline" -> 200
    [] Req(r).race = "timeout" -> 504
    [] Req(r).race = "error" -> 500
    [] OTHER -> 0

\* what was handed to sendWablasMessage for a request, in order
KindsSentTo(r) ==
  LET own == SelectSeq(gateway.sent, LAMBDA m : m.request = r)
  IN [i \in 1..Len(own) |-> own[i].kind]

\* C22: when the hand-over of the answer fails and the timer has not fired,
\* one more message is handed over, the apology, and the caller is answered
\* with an error status.
C22_SendFailureIsReported ==
  \A r \in Requests :
    (Req(r).race = "pipeline" /\ SentTo(r, "not sent")) =>
      /\ KindsSentTo(r) = <<"not sent", "send apology">>
      /\ Response(r) >= 400

\* C24: the history a handler passes to routeQuery holds at most the last
\* exchange of the session: two messages, one of the user and one of the
\* assistant.
C24_RouterSeesOneExchange ==
  \A r \in Requests :
    /\ Len(Req(r).routingHistory) <= 2
    /\ Len(Req(r).routingHistory) = 2 =>
         /\ Req(r).routingHistory[1].role = "user"
         /\ Req(r).routingHistory[2].role = "assistant"

\* routeQuery has resolved for a request in this step
RoutedNow(r) == Req(r).pc = "routing" /\ gateway'.req[r].pc # "routing"

\* C29: the step in which the router's decision for a turn arrives, on the
\* chat route or on the webhook, leaves the session's sessionType equal to
\* that decision ("rag" when it answered rag, "general" otherwise), and no
\* other step changes the sessionType of a session; so after every completed
\* turn the sessionType is the router's last decision for the session.
C29_SessionTypeIsLastDecision ==
  [][/\ \A r \in Requests :
          (RoutedNow(r) /\ SessionOf(Req(r).path) \in DOMAIN sessions') =>
            sessions'[SessionOf(Req(r).path)].metadata.sessionType =
              IF gateway'.req[r].pc = "retrieving" THEN "rag" ELSE "general"
     /\ (\A r \in Requests : ~RoutedNow(r)) =>
          \A id \in DOMAIN sessions \cap DOMAIN sessions' :
            sessions'[id].metadata.sessionType = SessionType(id)]_vars


\* getClientConnectionSessions: the ids listed under the fingerprint whose
\* session exists
getClientConnectionSessions(ipAddress, userAgent) ==
  LET fp == Fingerprint(ipAddress, userAgent)
  IN IF fp \notin DOMAIN clientConnections THEN {}
     ELSE {id \in DOMAIN sessions : Includes(clientConnections[fp].sessionIds, id)}

\* C33: once a web chat request for a session has been processed, the first
\* one that creates the session included, the sessions of the connection it
\* came from (ip, user agent) contain that session.
C33_ConnectionListsSession ==
  \A r \in Requests :
    (Req(r).path = "chat" /\ Req(r).pc = "done") =>
      Session1 \in getClientConnectionSessions(ArrivalPartial.ipAddress, ArrivalPartial.userAgent)


\* the lookups made for the hit a fragment came from
LookupsFor(chunk) ==
  {j \in 1..Len(rag.lookups) : rag.lookups[j].docNum = chunk.docNum}

\* C34: expandChunk asks for the successor chunk, under the id document_code
\* _ (current_chunk + 1), exactly when current_chunk < total_chunks - 1, once
\* per fragment and for no hit that was skipped; when the lookup returns
\* nothing or throws, and when the chunk is the last one, the fragment keeps
\* its text, and the call goes on to the evaluation.
C34_SuccessorLookup ==
  Expanded =>
    /\ rag.pc # "threw"
    /\ \A j \in 1..Len(rag.lookups) :
         \E k \in 1..Len(rag.mergedChunks) : rag.mergedChunks[k].docNum = rag.lookups[j].docNum
    /\ \A k \in 1..Len(rag.mergedChunks) :
         LET chunk == rag.mergedChunks[k]
             original == Documents(rag.hits)[chunk.docNum].text
             more == chunk.metadata.current_chunk < chunk.metadata.total_chunks - 1
         IN /\ Cardinality(LookupsFor(chunk)) = IF more THEN 1 ELSE 0
            /\ \A j \in LookupsFor(chunk) :
                 rag.lookups[j].id = <<chunk.metadata.document_code, "_",
                                       chunk.metadata.current_chunk + 1>>
            /\ (~more \/ rag.next \in {Null, Fault}) => chunk.content = original
            /\ (more /\ rag.next \notin {Null, Fault}) =>
                 chunk.content = mergeChunks(original, rag.next.text)

\* a lookup that threw: a first chunk and a last chunk both keep their text
C34_Witness ==
  /\ rag.pc = "EVALUATED"
  /\ rag.next = Fault
  /\ Len(rag.lookups) = 1
  /\ \E k \in 1..Len(rag.mergedChunks) :
       /\ rag.mergedChunks[k].metadata = MetaFirst
       /\ rag.mergedChunks[k].content = <<"a", "b">>
  /\ \E k \in 1..Len(rag.mergedChunks) :
       /\ rag.mergedChunks[k].metadata = MetaLast
       /\ rag.mergedChunks[k].content = <<"d">>


\* the numbers of the candidate list that the evaluator returned
ReturnedNumbers ==
  {n \in 1..Len(rag.mergedChunks) : Includes(rag.evaluation.ids, n)}

\* the candidates that were retained, by their number in the candidate list
RetainedNumbers ==
  {n \in 1..Len(rag.mergedChunks) :
     \E j \in 1..Len(rag.selectedChunks) : rag.selectedChunks[j] = rag.mergedChunks[n]}

\* C35: when some returned id matches, the fragments retained are exactly the
\* ones the evaluator saw under the numbers it returned: the block shown as
\* [n] in the ranked candidate list is retained if and only if n is among the
\* returned ids.
C35_RetainedAreThoseReturned ==
  (/\ Selected
   /\ ReturnedNumbers # {}
   /\ FilterByIds(rag.mergedChunks, rag.evaluation.ids) # <<>>) =>
    RetainedNumbers = ReturnedNumbers


\* the number the callers print in front of sources[idx], idx counted from 0
ReferenceNumber(idx) == idx + 1

\* the sources of a call, each under the number its caller prints
References(sources) ==
  [k \in 1..Len(sources) |-> [number |-> ReferenceNumber(k - 1), source |-> sources[k]]]

\* C36: the sources of a call are one per retained fragment, in rendering
\* order, and the number printed for the k-th source is the number its
\* fragment carries in the final context block.
C36_ReferenceNumbersMatchContext ==
  Rendered =>
    LET refs == References(rag.result.sources)
    IN /\ Len(refs) = Len(rag.selectedChunks)
       /\ \A k \in 1..Len(refs) :
            /\ refs[k].source.jenis = rag.selectedChunks[k].metadata.jenis
            /\ refs[k].source.nomor = rag.selectedChunks[k].metadata.nomor
            /\ refs[k].source.tahun = rag.selectedChunks[k].metadata.tahun
            /\ refs[k].source.view_link = rag.selectedChunks[k].metadata.view_link
       /\ ContextBody(rag.result.contextPrompt) =
            <<"\n">>
            \o JoinLines([k \in 1..Len(refs) |->
                            formatDocument(rag.selectedChunks[k], refs[k].number)])
            \o <<"\n">>


\* C37: at every call site and in every interleaving of requests,
\* createSession is called for an id that is not in the session table, so it
\* leaves every existing session as it was; and an append to an existing
\* session does not start it afresh.
C37_CreateOnlyWhenAbsent ==
  [][/\ StepOf("createSession") =>
          /\ lastCall'.id \notin DOMAIN sessions
          /\ \A id \in DOMAIN sessions : sessions'[id] = sessions[id]
     /\ (StepOf("addMessage") /\ lastCall'.id \in DOMAIN sessions) =>
          /\ sessions'[lastCall'.id].messages # <<>>
          /\ \A f \in MetaFields \ {"lastActive"} :
               sessions'[lastCall'.id].metadata[f] = sessions[lastCall'.id].metadata[f]]_vars

\* the clear route, called with a user for the webhook session that earlier
\* turns had filled, has removed it and created it again, between the
\* arrival and the end of a webhook request
C37_Witness ==
  /\ lastCall.op = "createSession"
  /\ lastCall.id = Wablas628
  /\ gateway.running = 0
  /\ Wablas628 \in DOMAIN sessions
  /\ appended[Wablas628] = <<>>
  /\ sessions[Wablas628].metadata.userId = "u1"
  /\ sessions[Wablas628].metadata.createdAt > 0
  /\ \E r \in Requests :
       /\ Req(r).path = "webhook"
       /\ Req(r).routingHistory = EarlierTurns
       /\ Req(r).pc = "answering"


\* C38: every webhook request that has entered the race is eventually
\* answered, also when its pipeline never completes; the answer, once given,
\* is never replaced; it is 200 only when the pipeline has completed, 504 only
\* when the timer was due, and 504 and 500 are kept apart.
C38_WebhookAlwaysAnswered ==
  /\ \A r \in Requests :
       (Req(r).path = "webhook" /\ Req(r).race = "pending") ~> (Response(r) \in {200, 500, 504})
  /\ [][\A r \in Requests : Response(r) # 0 => Response(r)' = Response(r)]_vars
  /\ [](\A r \in Requests :
          /\ Response(r) = 200 => Req(r).pc = "done"
          /\ Response(r) = 504 => (Req(r).race = "timeout" /\ now - Req(r).arrivedAt >= TimeoutTicks)
          /\ Response(r) = 500 => Req(r).race = "error")

\* a webhook request whose router never answered has been answered 504
C38_Witness ==
  \E r \in Requests :
    /\ Req(r).path = "webhook"
    /\ Req(r).pc = "routing"
    /\ Response(r) = 504
    /\ SentTo(r, "apology")

====
